---- MODULE Spec2Model ----
(***************************************************************************)
(* bevy-fusabi: the script asset pipeline.                                 *)
(*                                                                         *)
(*   loader.rs  FusabiLoader::load, compile_source                         *)
(*   asset.rs   FusabiScript, FusabiScript::to_chunk                       *)
(*   runner.rs  RunScript, run_scripts                                     *)
(*                                                                         *)
(* The lexer, parser, compiler, codec and VM are crates outside this       *)
(* repository (fusabi_frontend, fusabi_vm).  They are given here as small  *)
(* total functions over a toy byte alphabet so that every stage can fail   *)
(* on its own and a serialized unit differs from the text it came from.    *)
(***************************************************************************)
EXTENDS Naturals, Sequences, FiniteSets, TLC

\* Longest file, in bytes, that the exhaustive loader specification reads.
MaxLen == 2

\* Number of entities that may carry a RunScript component.
MaxRunners == 2

(***************************************************************************)
(* Bytes.  One string stands for one byte value.                           *)
(***************************************************************************)
\* Bytes that are characters of the scripting language.
SourceChar == {"k", "e", "y", "(", "u", "n"}

\* Bytes of a serialized unit: the header and the three opcodes.
Magic == "FZB1"
OpByte == {"K", "E", "Y"}

\* 0xDE is the lead byte of a two-byte UTF-8 sequence, 0xAD a continuation byte.
Byte == SourceChar \cup {Magic} \cup OpByte \cup {"xDE", "xAD"}

Ascii == Byte \ {"xDE", "xAD"}

BytesUpTo(n) == UNION {[1..k -> Byte] : k \in 0..n}

\* Map f over a sequence.
MapSeq(f, s) == [i \in 1..Len(s) |-> f[s[i]]]

Has(s, x) == \E i \in 1..Len(s) : s[i] = x

(***************************************************************************)
(* Results.  Ok(v) / Err(kind), with one record shape for both.            *)
(***************************************************************************)
Ok(v) == [ok |-> TRUE, val |-> v, err |-> ""]
Err(kind) == [ok |-> FALSE, val |-> <<>>, err |-> kind]

(***************************************************************************)
(* Collaborators outside the repository.                                   *)
(***************************************************************************)
\* reader.read_to_end: the whole file, or an I/O error.
read_to_end(file) == IF file.readable THEN Ok(file.bytes) ELSE Err("Io")

\* String::from_utf8: the same bytes when they are well-formed UTF-8.
RECURSIVE Utf8Valid(_)
Utf8Valid(b) ==
    IF b = <<>> THEN TRUE
    ELSE IF Head(b) \in Ascii THEN Utf8Valid(Tail(b))
    ELSE IF Head(b) = "xDE" /\ Len(b) >= 2 /\ b[2] = "xAD"
         THEN Utf8Valid(Tail(Tail(b)))
    ELSE FALSE

from_utf8(bytes) == IF Utf8Valid(bytes) THEN Ok(bytes) ELSE Err("Utf8")

\* Lexer::tokenize: one token per character; any other character is an error.
TokenOf == [c \in SourceChar |->
              CASE c = "k" -> "Num"
                [] c = "e" -> "DivZero"
                [] c = "y" -> "HostCall"
                [] c = "(" -> "LParen"
                [] c = "u" -> "Ident"
                [] c = "n" -> "NativeRef"]

tokenize(source) ==
    IF \A i \in 1..Len(source) : source[i] \in SourceChar
    THEN Ok(MapSeq(TokenOf, source))
    ELSE Err("LexError")

\* Parser::parse_program: an opening parenthesis is never closed.
NodeOf == [t \in {"Num", "DivZero", "HostCall", "Ident", "NativeRef"} |->
              CASE t = "Num" -> "Lit"
                [] t = "DivZero" -> "Div"
                [] t = "HostCall" -> "Call"
                [] t = "Ident" -> "Var"
                [] t = "NativeRef" -> "Native"]

parse_program(tokens) ==
    IF Has(tokens, "LParen") THEN Err("ParseError") ELSE Ok(MapSeq(NodeOf, tokens))

\* Compiler::compile_program: a variable is never bound.
InstrOf == [n \in {"Lit", "Div", "Call", "Native"} |->
              CASE n = "Lit" -> "PUSH"
                [] n = "Div" -> "DIVZ"
                [] n = "Call" -> "CALLHOST"
                [] n = "Native" -> "PUSHNATIVE"]

compile_program(program) ==
    IF Has(program, "Var") THEN Err("CompileError") ELSE Ok(MapSeq(InstrOf, program))

\* fusabi_vm::serialize_chunk: header, then one byte per instruction; a native
\* reference has no serialized form.
EncodeOf == [i \in {"PUSH", "DIVZ", "CALLHOST"} |->
              CASE i = "PUSH" -> "K"
                [] i = "DIVZ" -> "E"
                [] i = "CALLHOST" -> "Y"]

serialize_chunk(chunk) ==
    IF Has(chunk, "PUSHNATIVE") THEN Err("SerializationError")
    ELSE Ok(<<Magic>> \o MapSeq(EncodeOf, chunk))

\* fusabi_vm::deserialize_chunk: the header must match and every byte after it
\* must be an opcode.
DecodeOf == [b \in OpByte |->
              CASE b = "K" -> "PUSH"
                [] b = "E" -> "DIVZ"
                [] b = "Y" -> "CALLHOST"]

deserialize_chunk(bytes) ==
    IF /\ Len(bytes) >= 1
       /\ Head(bytes) = Magic
       /\ \A i \in 2..Len(bytes) : bytes[i] \in OpByte
    THEN Ok(MapSeq(DecodeOf, Tail(bytes)))
    ELSE Err("DeserializationError")

\* Vm::new() followed by vm.execute(chunk): a fresh machine runs the unit to the
\* end.  DIVZ raises; CALLHOST raises when the host environment faults; the value
\* is the number of constants pushed.
Env == {"calm", "fault"}

RECURSIVE Pushed(_)
Pushed(chunk) ==
    IF chunk = <<>> THEN 0
    ELSE (IF Head(chunk) = "PUSH" THEN 1 ELSE 0) + Pushed(Tail(chunk))

\* Vm::new(): a machine with an empty stack.
Vm_new == [depth |-> 0]

\* vm.execute(chunk) on a machine in state vm: the constants of the unit are
\* pushed on top of what the stack holds, and the value is the stack's depth.
vm_execute(vm, chunk, env) ==
    IF Has(chunk, "DIVZ") \/ (Has(chunk, "CALLHOST") /\ env = "fault")
    THEN [ok |-> FALSE, val |-> 0, err |-> "RuntimeError",
          vm |-> [depth |-> vm.depth + Pushed(chunk)]]
    ELSE [ok |-> TRUE, val |-> vm.depth + Pushed(chunk), err |-> "",
          vm |-> [depth |-> vm.depth + Pushed(chunk)]]

execute(chunk, env) ==
    LET r == vm_execute(Vm_new, chunk, env)
    IN  [ok |-> r.ok, val |-> r.val, err |-> r.err]

(***************************************************************************)
(* asset.rs                                                                *)
(***************************************************************************)
\* Option<FusabiScript>: None, or Some(FusabiScript { name, bytecode }).
NoAsset == [some |-> FALSE, name |-> "", bytecode |-> <<>>]

FusabiScript_new(name, bytecode) == [some |-> TRUE, name |-> name, bytecode |-> bytecode]

\* FusabiScript::to_chunk: deserialize_chunk(&self.bytecode).map_err(to_string).
to_chunk(script) ==
    LET r == deserialize_chunk(script.bytecode)
    IN  IF r.ok THEN Ok(r.val) ELSE Err(r.err)

(***************************************************************************)
(* loader.rs                                                               *)
(***************************************************************************)
\* Asset paths: a file stem and an extension ("" when the path has none).
HelloFsx == [stem |-> "hello", ext |-> "fsx"]
PreFzb == [stem |-> "pre", ext |-> "fzb"]
NotesTxt == [stem |-> "notes", ext |-> "txt"]
BareScript == [stem |-> "script", ext |-> ""]
NoPath == [stem |-> "", ext |-> ""]

\* Every path the loader may be handed.
Paths == {HelloFsx, PreFzb, NotesTxt, BareScript}

\* Paths the asset server sends to this loader by extension (extensions()).
Handles == {p \in Paths : p.ext \in {"fsx", "fzb"}}

\* A file as the reader sees it: its bytes, or a read that fails.
Unreadable == [readable |-> FALSE, bytes |-> <<>>]
FileOf(bytes) == [readable |-> TRUE, bytes |-> bytes]

\* The stages a load went through, in the order they were entered.
Pipeline == <<"read", "utf8", "lex", "parse", "compile", "serialize">>

\* What a load returns: Ok(asset), or Err(kind) and no asset.
Loaded(asset, stages) == [kind |-> "Ok", asset |-> asset, stages |-> stages]
Failed(kind, stages) == [kind |-> kind, asset |-> NoAsset, stages |-> stages]

\* compile_source with the parser's error mapped to FusabiLoaderError::Compiler.
compile_source_wrong_variant(source) ==
    LET tokens == tokenize(source)
    IN  IF ~tokens.ok THEN [ok |-> FALSE, val |-> <<>>, err |-> "Lexer", stages |-> <<"lex">>]
        ELSE LET program == parse_program(tokens.val)
             IN  IF ~program.ok
                 THEN [ok |-> FALSE, val |-> <<>>, err |-> "Compiler",
                       stages |-> <<"lex", "parse">>]
                 ELSE LET chunk == compile_program(program.val)
                      IN  IF ~chunk.ok
                          THEN [ok |-> FALSE, val |-> <<>>, err |-> "Compiler",
                                stages |-> <<"lex", "parse", "compile">>]
                          ELSE [ok |-> TRUE, val |-> chunk.val, err |-> "",
                                stages |-> <<"lex", "parse", "compile">>]

\* compile_source: tokenize, parse_program, compile_program; each `?` returns
\* the stage's error under the stage's own variant.
compile_source(source) ==
    LET tokens == tokenize(source)
    IN  IF ~tokens.ok THEN [ok |-> FALSE, val |-> <<>>, err |-> "Lexer", stages |-> <<"lex">>]
        ELSE LET program == parse_program(tokens.val)
             IN  IF ~program.ok
                 THEN [ok |-> FALSE, val |-> <<>>, err |-> "Parser",
                       stages |-> <<"lex", "parse">>]
                 ELSE LET chunk == compile_program(program.val)
                      IN  IF ~chunk.ok
                          THEN [ok |-> FALSE, val |-> <<>>, err |-> "Compiler",
                                stages |-> <<"lex", "parse", "compile">>]
                          ELSE [ok |-> TRUE, val |-> chunk.val, err |-> "",
                                stages |-> <<"lex", "parse", "compile">>]

\* load comparing the extension with ".fzb": no path takes the pass-through branch.
load_dotted_ext(path, file) ==
    LET ext == path.ext
        name == IF path.stem = "" THEN "unknown" ELSE path.stem
        bytes == read_to_end(file)
    IN  IF ~bytes.ok THEN Failed("Io", <<"read">>)
        ELSE IF ext = ".fzb"
        THEN Loaded(FusabiScript_new(name, bytes.val), <<"read">>)
        ELSE LET source == from_utf8(bytes.val)
             IN  IF ~source.ok THEN Failed("Utf8", <<"read", "utf8">>)
                 ELSE LET chunk == compile_source(source.val)
                          sofar == <<"read", "utf8">> \o chunk.stages
                      IN  IF ~chunk.ok THEN Failed(chunk.err, sofar)
                          ELSE LET bytecode == serialize_chunk(chunk.val)
                               IN  IF ~bytecode.ok
                                   THEN Failed("Bytecode", sofar \o <<"serialize">>)
                                   ELSE Loaded(FusabiScript_new(name, bytecode.val),
                                               sofar \o <<"serialize">>)

\* load with `compile_source(&source).unwrap_or_default()`: a failed compile
\* yields an empty unit, which is serialized and returned.
load_default_chunk(path, file) ==
    LET ext == path.ext
        name == IF path.stem = "" THEN "unknown" ELSE path.stem
        bytes == read_to_end(file)
    IN  IF ~bytes.ok THEN Failed("Io", <<"read">>)
        ELSE IF ext = "fzb"
        THEN Loaded(FusabiScript_new(name, bytes.val), <<"read">>)
        ELSE LET source == from_utf8(bytes.val)
             IN  IF ~source.ok THEN Failed("Utf8", <<"read", "utf8">>)
                 ELSE LET chunk == compile_source(source.val)
                          sofar == <<"read", "utf8">> \o chunk.stages
                      IN  LET bytecode == serialize_chunk(chunk.val)
                               IN  IF ~bytecode.ok
                                   THEN Failed("Bytecode", sofar \o <<"serialize">>)
                                   ELSE Loaded(FusabiScript_new(name, bytecode.val),
                                               sofar \o <<"serialize">>)

\* load with an extension check in front: anything but fsx and fzb is refused.
load_reject_unknown(path, file) ==
    LET ext == path.ext
        name == IF path.stem = "" THEN "unknown" ELSE path.stem
        bytes == read_to_end(file)
    IN  IF ~bytes.ok THEN Failed("Io", <<"read">>)
        ELSE IF ext = "fzb"
        THEN Loaded(FusabiScript_new(name, bytes.val), <<"read">>)
        ELSE IF ext # "fsx" THEN Failed("UnsupportedExtension", <<"read">>)
        ELSE LET source == from_utf8(bytes.val)
             IN  IF ~source.ok THEN Failed("Utf8", <<"read", "utf8">>)
                 ELSE LET chunk == compile_source(source.val)
                          sofar == <<"read", "utf8">> \o chunk.stages
                      IN  IF ~chunk.ok THEN Failed(chunk.err, sofar)
                          ELSE LET bytecode == serialize_chunk(chunk.val)
                               IN  IF ~bytecode.ok
                                   THEN Failed("Bytecode", sofar \o <<"serialize">>)
                                   ELSE Loaded(FusabiScript_new(name, bytecode.val),
                                               sofar \o <<"serialize">>)

\* load that builds the asset from the bytes read instead of the serialized
\* unit: `FusabiScript::new(name, bytes)` at the end of the source path.
load_raw_source(path, file) ==
    LET ext == path.ext
        name == IF path.stem = "" THEN "unknown" ELSE path.stem
        bytes == read_to_end(file)
    IN  IF ~bytes.ok THEN Failed("Io", <<"read">>)
        ELSE IF ext = "fzb"
        THEN Loaded(FusabiScript_new(name, bytes.val), <<"read">>)
        ELSE LET source == from_utf8(bytes.val)
             IN  IF ~source.ok THEN Failed("Utf8", <<"read", "utf8">>)
                 ELSE LET chunk == compile_source(source.val)
                          sofar == <<"read", "utf8">> \o chunk.stages
                      IN  IF ~chunk.ok THEN Failed(chunk.err, sofar)
                          ELSE LET bytecode == serialize_chunk(chunk.val)
                               IN  IF ~bytecode.ok
                                   THEN Failed("Bytecode", sofar \o <<"serialize">>)
                                   ELSE Loaded(FusabiScript_new(name, bytes.val),
                                               sofar \o <<"serialize">>)

\* FusabiLoader::load.
load(path, file) ==
    LET ext == path.ext
        name == IF path.stem = "" THEN "unknown" ELSE path.stem
        bytes == read_to_end(file)
    IN  IF ~bytes.ok THEN Failed("Io", <<"read">>)
        ELSE IF ext = "fzb"
        THEN Loaded(FusabiScript_new(name, bytes.val), <<"read">>)
        ELSE LET source == from_utf8(bytes.val)
             IN  IF ~source.ok THEN Failed("Utf8", <<"read", "utf8">>)
                 ELSE LET chunk == compile_source(source.val)
                          sofar == <<"read", "utf8">> \o chunk.stages
                      IN  IF ~chunk.ok THEN Failed(chunk.err, sofar)
                          ELSE LET bytecode == serialize_chunk(chunk.val)
                               IN  IF ~bytecode.ok
                                   THEN Failed("Bytecode", sofar \o <<"serialize">>)
                                   ELSE Loaded(FusabiScript_new(name, bytecode.val),
                                               sofar \o <<"serialize">>)

(***************************************************************************)
(* runner.rs                                                               *)
(***************************************************************************)
Runners == 1..MaxRunners

\* RunScript { handle, executed }; live is false until the entity is spawned.
NoRunner == [live |-> FALSE, handle |-> NoPath, executed |-> FALSE]
\* A RunScript spawned with `executed: true`.
RunScript_done(handle) == [live |-> TRUE, handle |-> handle, executed |-> TRUE]

RunScript(handle) == [live |-> TRUE, handle |-> handle, executed |-> FALSE]

\* The line one visit of the loop printed for a runner.
Outcomes ==
    {"unvisited", "skipped", "unresolved", "load_chunk_failed", "execution_failed", "executed"}

\* The value a visit printed ("Script execution result: ..."), if any.
NoValue == [some |-> FALSE, val |-> 0]
SomeValue(v) == [some |-> TRUE, val |-> v]

\* The machine a visit constructed, if any, in the state execute found it in.
NoVm == [used |-> FALSE, start |-> Vm_new]
UsedVm(vm) == [used |-> TRUE, start |-> vm]

\* The steps of a visit that ran the unit, to the end or to a RuntimeError.
StepsFailed == <<"resolve", "deserialize", "vm_new", "execute">>
StepsDone == StepsFailed \o <<"record">>

\* What one visit leaves: the runner, the line it printed, the value printed,
\* the machine used and the steps taken.
Visit(runner, outcome, value, vm, steps) ==
    [runner |-> runner, outcome |-> outcome, value |-> value, vm |-> vm, steps |-> steps]

\* run_one without the `if runner.executed { continue; }` guard.
run_one_no_skip(runner, scripts, env) ==
    LET script == scripts[runner.handle]
         IN  IF ~script.some
             THEN Visit(runner, "unresolved", NoValue, NoVm, <<"resolve">>)
             ELSE LET chunk == to_chunk(script)
                  IN  IF ~chunk.ok
                      THEN Visit(runner, "load_chunk_failed", NoValue, NoVm,
                                 <<"resolve", "deserialize">>)
                      ELSE LET vm == Vm_new
                               value == vm_execute(vm, chunk.val, env)
                           IN  IF value.ok
                               THEN Visit([runner EXCEPT !.executed = TRUE], "executed",
                                          SomeValue(value.val), UsedVm(vm), StepsDone)
                               ELSE Visit(runner, "execution_failed", NoValue,
                                          UsedVm(vm), StepsFailed)

\* run_one with `runner.executed = true` set as soon as the asset resolves.
run_one_flag_on_resolve(runner, scripts, env) ==
    IF runner.executed THEN Visit(runner, "skipped", NoValue, NoVm, <<>>)
    ELSE LET script == scripts[runner.handle]
         IN  IF ~script.some
             THEN Visit(runner, "unresolved", NoValue, NoVm, <<"resolve">>)
             ELSE LET chunk == to_chunk(script)
                  IN  IF ~chunk.ok
                      THEN Visit([runner EXCEPT !.executed = TRUE], "load_chunk_failed", NoValue, NoVm,
                                 <<"resolve", "deserialize">>)
                      ELSE LET vm == Vm_new
                               value == vm_execute(vm, chunk.val, env)
                           IN  IF value.ok
                               THEN Visit([runner EXCEPT !.executed = TRUE], "executed",
                                          SomeValue(value.val), UsedVm(vm), StepsDone)
                               ELSE Visit([runner EXCEPT !.executed = TRUE], "execution_failed", NoValue,
                                          UsedVm(vm), StepsFailed)

\* run_one that marks the runner done when the VM raises.
run_one_mark_failed(runner, scripts, env) ==
    IF runner.executed THEN Visit(runner, "skipped", NoValue, NoVm, <<>>)
    ELSE LET script == scripts[runner.handle]
         IN  IF ~script.some
             THEN Visit(runner, "unresolved", NoValue, NoVm, <<"resolve">>)
             ELSE LET chunk == to_chunk(script)
                  IN  IF ~chunk.ok
                      THEN Visit(runner, "load_chunk_failed", NoValue, NoVm,
                                 <<"resolve", "deserialize">>)
                      ELSE LET vm == Vm_new
                               value == vm_execute(vm, chunk.val, env)
                           IN  IF value.ok
                               THEN Visit([runner EXCEPT !.executed = TRUE], "executed",
                                          SomeValue(value.val), UsedVm(vm), StepsDone)
                               ELSE Visit([runner EXCEPT !.executed = TRUE], "execution_failed", NoValue,
                                          UsedVm(vm), StepsFailed)

\* run_one that runs an empty unit when the bytecode does not deserialize.
run_one_default_chunk(runner, scripts, env) ==
    IF runner.executed THEN Visit(runner, "skipped", NoValue, NoVm, <<>>)
    ELSE LET script == scripts[runner.handle]
         IN  IF ~script.some
             THEN Visit(runner, "unresolved", NoValue, NoVm, <<"resolve">>)
             ELSE LET chunk == to_chunk(script)
                      vm == Vm_new
                      value == vm_execute(vm, chunk.val, env)
                  IN  IF value.ok
                      THEN Visit([runner EXCEPT !.executed = TRUE], "executed", SomeValue(value.val),
                                 UsedVm(vm), StepsDone)
                      ELSE Visit(runner, "execution_failed", NoValue,
                                 UsedVm(vm), StepsFailed)

\* run_one that treats a handle with no asset as nothing left to do.
run_one_done_if_missing(runner, scripts, env) ==
    IF runner.executed THEN Visit(runner, "skipped", NoValue, NoVm, <<>>)
    ELSE LET script == scripts[runner.handle]
         IN  IF ~script.some
             THEN Visit([runner EXCEPT !.executed = TRUE], "unresolved", NoValue, NoVm, <<"resolve">>)
             ELSE LET chunk == to_chunk(script)
                  IN  IF ~chunk.ok
                      THEN Visit(runner, "load_chunk_failed", NoValue, NoVm,
                                 <<"resolve", "deserialize">>)
                      ELSE LET vm == Vm_new
                               value == vm_execute(vm, chunk.val, env)
                           IN  IF value.ok
                               THEN Visit([runner EXCEPT !.executed = TRUE], "executed",
                                          SomeValue(value.val), UsedVm(vm), StepsDone)
                               ELSE Visit(runner, "execution_failed", NoValue,
                                          UsedVm(vm), StepsFailed)

\* run_one whose Ok arm sets the flag without printing the value.
run_one_silent(runner, scripts, env) ==
    IF runner.executed THEN Visit(runner, "skipped", NoValue, NoVm, <<>>)
    ELSE LET script == scripts[runner.handle]
         IN  IF ~script.some
             THEN Visit(runner, "unresolved", NoValue, NoVm, <<"resolve">>)
             ELSE LET chunk == to_chunk(script)
                  IN  IF ~chunk.ok
                      THEN Visit(runner, "load_chunk_failed", NoValue, NoVm,
                                 <<"resolve", "deserialize">>)
                      ELSE LET vm == Vm_new
                               value == vm_execute(vm, chunk.val, env)
                           IN  IF value.ok
                               THEN Visit([runner EXCEPT !.executed = TRUE], "executed",
                                          NoValue, UsedVm(vm), StepsDone)
                               ELSE Visit(runner, "execution_failed", NoValue,
                                          UsedVm(vm), StepsFailed)

\* The body of the for loop, for one runner.
run_one(runner, scripts, env) ==
    IF runner.executed THEN Visit(runner, "skipped", NoValue, NoVm, <<>>)
    ELSE LET script == scripts[runner.handle]
         IN  IF ~script.some
             THEN Visit(runner, "unresolved", NoValue, NoVm, <<"resolve">>)
             ELSE LET chunk == to_chunk(script)
                  IN  IF ~chunk.ok
                      THEN Visit(runner, "load_chunk_failed", NoValue, NoVm,
                                 <<"resolve", "deserialize">>)
                      ELSE LET vm == Vm_new
                               value == vm_execute(vm, chunk.val, env)
                           IN  IF value.ok
                               THEN Visit([runner EXCEPT !.executed = TRUE], "executed",
                                          SomeValue(value.val), UsedVm(vm), StepsDone)
                               ELSE Visit(runner, "execution_failed", NoValue,
                                          UsedVm(vm), StepsFailed)

\* What a pass has reported so far, per runner: the line printed, the value
\* printed, the machine used (numbered in order of construction), the steps
\* taken and the number of visits.
Log0 ==
    [outcome |-> [r \in Runners |-> "unvisited"],
     value |-> [r \in Runners |-> NoValue],
     vm |-> [r \in Runners |-> [used |-> FALSE, start |-> Vm_new, id |-> 0]],
     steps |-> [r \in Runners |-> <<>>],
     visits |-> [r \in Runners |-> 0]]

Made(log) == Cardinality({q \in Runners : log.vm[q].used})

Logged(log, r, visit) ==
    [outcome |-> [log.outcome EXCEPT ![r] = visit.outcome],
     value |-> [log.value EXCEPT ![r] = visit.value],
     vm |-> [log.vm EXCEPT ![r] =
                IF visit.vm.used
                THEN [used |-> TRUE, start |-> visit.vm.start, id |-> Made(log) + 1]
                ELSE @],
     steps |-> [log.steps EXCEPT ![r] = @ \o visit.steps],
     visits |-> [log.visits EXCEPT ![r] = @ + 1]]

\* query.iter_mut(): every runner of `order` is visited, one after the other.
\* The assets are only read.  (The visit and the log after it are bound as
\* values, so that each is computed once.)
RECURSIVE iter_mut(_, _, _, _, _)
iter_mut(order, query, scripts, env, log) ==
    IF order = <<>> THEN [query |-> query, scripts |-> scripts, log |-> log]
    ELSE LET r == Head(order)
         IN  CHOOSE pass \in
                 {iter_mut(Tail(order), [query EXCEPT ![r] = step.visit.runner], scripts, env,
                           step.log) :
                     step \in {[visit |-> visit, log |-> Logged(log, r, visit)] :
                                   visit \in {run_one(query[r], scripts, env[r])}}} : TRUE

\* iter_mut with `break` in place of falling through to the next runner when a
\* visit reports a failure.
RECURSIVE iter_break(_, _, _, _, _)
iter_break(order, query, scripts, env, log) ==
    IF order = <<>> THEN [query |-> query, scripts |-> scripts, log |-> log]
    ELSE LET r == Head(order)
             visit == run_one(query[r], scripts, env[r])
             query2 == [query EXCEPT ![r] = visit.runner]
             log2 == Logged(log, r, visit)
         IN  IF visit.outcome \in {"load_chunk_failed", "execution_failed"}
             THEN [query |-> query2, scripts |-> scripts, log |-> log2]
             ELSE iter_break(Tail(order), query2, scripts, env, log2)

run_scripts_break(order, query, scripts, env) ==
    iter_break(order, query, scripts, env, Log0)

\* run_scripts with `let mut vm = Vm::new();` hoisted out of the loop: one
\* machine serves every invocation of the pass.
RECURSIVE iter_shared_vm(_, _, _, _, _, _)
iter_shared_vm(order, query, scripts, env, log, vm) ==
    IF order = <<>> THEN [query |-> query, scripts |-> scripts, log |-> log]
    ELSE LET r == Head(order)
             runner == query[r]
             script == scripts[runner.handle]
             chunk == to_chunk(script)
             value == vm_execute(vm, chunk.val, env[r])
             visit == IF runner.executed \/ ~script.some \/ ~chunk.ok
                      THEN run_one(runner, scripts, env[r])
                      ELSE IF value.ok
                      THEN Visit([runner EXCEPT !.executed = TRUE], "executed",
                                 SomeValue(value.val), UsedVm(vm), StepsDone)
                      ELSE Visit(runner, "execution_failed", NoValue, UsedVm(vm), StepsFailed)
             logged == Logged(log, r, visit)
         IN  iter_shared_vm(Tail(order), [query EXCEPT ![r] = visit.runner], scripts, env,
                            IF visit.vm.used THEN [logged EXCEPT !.vm[r].id = 1] ELSE logged,
                            IF visit.vm.used THEN value.vm ELSE vm)

run_scripts_shared_vm(order, query, scripts, env) ==
    iter_shared_vm(order, query, scripts, env, Log0, Vm_new)

\* run_scripts registered twice in Update: a tick goes over the query twice.
run_scripts_twice(order, query, scripts, env) ==
    LET first == iter_mut(order, query, scripts, env, Log0)
    IN  iter_mut(order, first.query, first.scripts, env, first.log)

\* run_scripts over `ResMut<Assets<FusabiScript>>` with a to_chunk that takes
\* the bytes out of the asset (`std::mem::take(&mut self.bytecode)`): a visit
\* that deserializes leaves the asset with empty bytecode.
RECURSIVE iter_take(_, _, _, _, _)
iter_take(order, query, scripts, env, log) ==
    IF order = <<>> THEN [query |-> query, scripts |-> scripts, log |-> log]
    ELSE LET r == Head(order)
             visit == run_one(query[r], scripts, env[r])
             h == query[r].handle
         IN  iter_take(Tail(order), [query EXCEPT ![r] = visit.runner],
                       IF Has(visit.steps, "deserialize")
                       THEN [scripts EXCEPT ![h].bytecode = <<>>]
                       ELSE scripts,
                       env, Logged(log, r, visit))

run_scripts_take(order, query, scripts, env) ==
    iter_take(order, query, scripts, env, Log0)

\* run_scripts that runs an asset once: a runner is passed over when another
\* runner with the same handle has already been executed.
RECURSIVE iter_once_per_asset(_, _, _, _, _)
iter_once_per_asset(order, query, scripts, env, log) ==
    IF order = <<>> THEN [query |-> query, scripts |-> scripts, log |-> log]
    ELSE LET r == Head(order)
             served == \E q \in Runners \ {r} :
                           /\ query[q].live /\ query[q].executed
                           /\ query[q].handle = query[r].handle
         IN  CHOOSE pass \in
                 {iter_once_per_asset(Tail(order), [query EXCEPT ![r] = step.visit.runner],
                                      scripts, env, step.log) :
                     step \in {[visit |-> visit, log |-> Logged(log, r, visit)] :
                                   visit \in {IF served
                                              THEN Visit(query[r], "skipped", NoValue, NoVm, <<>>)
                                              ELSE run_one(query[r], scripts, env[r])}}} : TRUE

run_scripts_once_per_asset(order, query, scripts, env) ==
    iter_once_per_asset(order, query, scripts, env, Log0)

\* run_scripts: one pass of the system over the query.
run_scripts(order, query, scripts, env) ==
    iter_mut(order, query, scripts, env, Log0)

(***************************************************************************)
(* State                                                                   *)
(***************************************************************************)
VARIABLES
    assets,     \* Assets<FusabiScript>: path -> Option<FusabiScript>
    runners,    \* the RunScript component of each entity
    event       \* what the last operation was given and what it reported

vars == <<assets, runners, event>>

NoLog == [r \in Runners |-> "unvisited"]
NoFlags == [r \in Runners |-> FALSE]

\* One record shape for every operation.  A load keeps its path, file and
\* result and, when it replaced the asset, the runners of that path whose visit
\* failed in the tick just before it; a pass keeps the flags it started from,
\* what the tick before it reported (nothing, when the last operation was not
\* a pass), its own log, and the failed runners of the load it directly follows.
Event(type, h, file, kind, stages, failed, before, prior, log) ==
    [type |-> type, handle |-> h, file |-> file, kind |-> kind, stages |-> stages,
     failed |-> failed, before |-> before, prior |-> prior,
     outcome |-> log.outcome, value |-> log.value, vm |-> log.vm,
     steps |-> log.steps, visits |-> log.visits]

Startup == Event("startup", NoPath, Unreadable, "", <<>>, {}, NoFlags, NoLog, Log0)

LoadEvent(h, file, result, failed) ==
    Event("load", h, file, result.kind, result.stages, failed, NoFlags, NoLog, Log0)

SpawnEvent(h) == Event("spawn", h, Unreadable, "", <<>>, {}, NoFlags, NoLog, Log0)

PassEvent(failed, before, prior, log) ==
    Event("run_scripts", NoPath, Unreadable, "", <<>>, failed, before, prior, log)

Init ==
    /\ assets = [p \in Paths |-> NoAsset]
    /\ runners = [r \in Runners |-> NoRunner]
    /\ event = Startup

(***************************************************************************)
(* Operations                                                              *)
(***************************************************************************)
FailedOutcomes == {"load_chunk_failed", "execution_failed"}

\* A store that keeps the first asset loaded under a path: a later load of the
\* path is compiled and then dropped, as if runners held the asset by value.
LoadAsset_keep_first(h, file) ==
    LET result == load(h, file)
        failed == IF event.type = "run_scripts" /\ result.kind = "Ok"
                  THEN {r \in Runners : /\ runners[r].handle = h
                                        /\ event.outcome[r] \in FailedOutcomes}
                  ELSE {}
    IN  /\ assets' = IF result.kind = "Ok" /\ ~assets[h].some THEN [assets EXCEPT ![h] = result.asset]
                     ELSE assets
        /\ event' = LoadEvent(h, file, result, failed)
        /\ UNCHANGED runners

\* The asset server reads `file` at path h, runs FusabiLoader::load on it and
\* stores the asset the load returned; a failed load stores nothing.
LoadAsset(h, file) ==
    LET result == load(h, file)
        failed == IF event.type = "run_scripts" /\ result.kind = "Ok"
                  THEN {r \in Runners : /\ runners[r].handle = h
                                        /\ event.outcome[r] \in FailedOutcomes}
                  ELSE {}
    IN  /\ assets' = IF result.kind = "Ok" THEN [assets EXCEPT ![h] = result.asset]
                     ELSE assets
        /\ event' = LoadEvent(h, file, result, failed)
        /\ UNCHANGED runners

\* commands.spawn(RunScript { handle, executed: false }) on the next free entity.
Spawn(h) ==
    /\ \E r \in Runners :
        /\ ~runners[r].live
        /\ \A q \in Runners : q < r => runners[q].live
        /\ runners' = [runners EXCEPT ![r] = RunScript(h)]
    /\ event' = SpawnEvent(h)
    /\ UNCHANGED assets

Live == {r \in Runners : runners[r].live}

\* The orders in which a query may yield the live runners.
Orders == {o \in [1..Cardinality(Live) -> Live] : \A i, j \in DOMAIN o : o[i] = o[j] => i = j}

\* One Update tick: run_scripts over every live runner, with the query and the
\* assets as the system leaves them.
RunScripts(order, env) ==
    \E pass \in {run_scripts(order, runners, assets, env)} :
        /\ runners' = pass.query
        /\ assets' = pass.scripts
        /\ event' = PassEvent(IF event.type = "load" THEN event.failed ELSE {},
                              [r \in Runners |-> runners[r].executed],
                              event.outcome, pass.log)

\* Files the running application loads and reloads.
Corpus ==
    {Unreadable} \cup
    {FileOf(b) : b \in {<<"xDE", "xAD">>, <<Magic, "K">>, <<Magic, "E">>, <<Magic, "Y">>,
                        <<"k">>, <<"e">>, <<"(">>}}

Next ==
    \/ \E h \in Handles, file \in Corpus : LoadAsset(h, file)
    \/ \E h \in Handles : Spawn(h)
    \/ \E order \in Orders, env \in [Runners -> Env] : RunScripts(order, env)

Spec == Init /\ [][Next]_vars

\* The three kinds of file a runner can be waiting on: one whose unit always
\* executes, one whose unit executes or not as the host answers, and one that
\* does not deserialize.
LiveCorpus == {FileOf(b) : b \in {<<Magic, "K">>, <<Magic, "Y">>, <<"xDE", "xAD">>}}

\* One tick of the Update schedule.
Tick == \E order \in Orders, env \in [Runners -> Env] : RunScripts(order, env)

FairNext ==
    \/ \E h \in Handles, file \in LiveCorpus : LoadAsset(h, file)
    \/ \E h \in Handles : Spawn(h)
    \/ Tick

\* The application with its schedule: run_scripts is in Update, which the app
\* runs on every frame, so a pass that has something to do is not put off
\* forever.  Nothing obliges a file to be loaded or a runner to be spawned.
FairSpec == Init /\ [][FairNext]_vars /\ WF_vars(Tick)

\* The loader alone: one load of any file of at most MaxLen bytes at any path.
Files == {Unreadable} \cup {FileOf(b) : b \in BytesUpTo(MaxLen)}

LoadOnce == event.type = "startup" /\ \E p \in Paths, file \in Files : LoadAsset(p, file)

LoaderSpec == Init /\ [][LoadOnce]_vars

(***************************************************************************)
(* Properties of the execution driver (specification Spec)                 *)
(***************************************************************************)
IsPass == event.type = "run_scripts"

ScriptOf(r) == assets[runners[r].handle]

\* The asset under r's handle is resolved and its bytecode deserializes.
Runnable(r) == ScriptOf(r).some /\ to_chunk(ScriptOf(r)).ok

\* The outcomes in which the VM was invoked.
VmInvoked == {"execution_failed", "executed"}

\* C1: at-most-once success.  A runner's executed flag never goes from true
\* back to false (so it goes from false to true at most once), and a pass that
\* starts with the flag set skips the runner: no deserialization, no VM.
C1_AtMostOnceSuccess ==
    /\ [](IsPass => \A r \in Runners :
            event.before[r] => runners[r].executed /\ event.outcome[r] = "skipped")
    /\ [][\A r \in Runners : runners[r].executed => runners'[r].executed]_vars

\* A pass skipped a runner that had succeeded in the tick before, although its
\* asset was still there to run.
C1_Witness ==
    /\ IsPass
    /\ \E r \in Runners :
        /\ event.before[r] /\ event.prior[r] = "executed"
        /\ event.outcome[r] = "skipped" /\ Runnable(r)

\* C2: executed flips true only on success.  In a pass the flag of a runner
\* becomes true exactly when the visit ended in a successful execution, which
\* needs a resolved asset, a successful deserialization and Ok from the VM; in
\* every other case the flag keeps the value it had when the pass started.
C2_FlipsOnlyOnSuccess ==
    IsPass => \A r \in Live :
        LET flipped == runners[r].executed /\ ~event.before[r]
        IN  /\ flipped <=> event.outcome[r] = "executed"
            /\ flipped => /\ Runnable(r)
                          /\ \E e \in Env : execute(to_chunk(ScriptOf(r)).val, e).ok
            /\ ~flipped => runners[r].executed = event.before[r]
            /\ (~event.before[r] /\ Runnable(r)
                  /\ \A e \in Env : execute(to_chunk(ScriptOf(r)).val, e).ok) => flipped
            /\ (Runnable(r) /\ \A e \in Env : ~execute(to_chunk(ScriptOf(r)).val, e).ok)
                  => ~flipped

\* In one pass one runner succeeded while another, on an asset that raises, kept
\* its flag.
C2_Witness ==
    /\ IsPass
    /\ \E r, q \in Live :
        /\ event.outcome[r] = "executed" /\ runners[r].executed /\ ~event.before[r]
        /\ event.outcome[q] = "execution_failed" /\ ~runners[q].executed

\* C3: an execution failure keeps the runner retryable.  After a RuntimeError
\* executed is still false, and every pass that finds a pending runner with a
\* resolved, deserializable asset invokes the VM for it, however often it has
\* failed before; a pending runner is never skipped.
C3_FailureKeepsRetryable ==
    IsPass => \A r \in Live :
        /\ event.outcome[r] = "execution_failed" => ~runners[r].executed
        /\ (~event.before[r] /\ Runnable(r)) => event.outcome[r] \in VmInvoked
        /\ event.outcome[r] = "skipped" => event.before[r]

\* The VM raised for a runner in one tick and was invoked for it again in the next.
C3_Witness ==
    /\ IsPass
    /\ \E r \in Live :
        /\ event.prior[r] = "execution_failed"
        /\ event.outcome[r] = "execution_failed"
        /\ ~runners[r].executed

\* C4: a deserialization failure leaves the runner pending.  Whenever a pending
\* runner's resolved asset does not deserialize, the pass reports the failure,
\* does not invoke the VM and leaves executed false, in every pass anew.
C4_DeserializeFailurePending ==
    IsPass => \A r \in Live :
        /\ (~event.before[r] /\ ScriptOf(r).some /\ ~to_chunk(ScriptOf(r)).ok)
              => event.outcome[r] = "load_chunk_failed"
        /\ event.outcome[r] = "load_chunk_failed"
              => ~runners[r].executed /\ ScriptOf(r).some /\ ~to_chunk(ScriptOf(r)).ok

\* The bytes DE AD, loaded as .fzb, failed to deserialize in two ticks in a row.
C4_Witness ==
    /\ IsPass
    /\ \E r \in Live :
        /\ runners[r].handle = PreFzb
        /\ ScriptOf(r).bytecode = <<"xDE", "xAD">>
        /\ event.prior[r] = "load_chunk_failed"
        /\ event.outcome[r] = "load_chunk_failed"
        /\ ~runners[r].executed

\* C5: an unresolved asset means waiting.  A runner whose handle does not
\* resolve is pending in every state, whatever loads have failed before, and a
\* pass reports it unresolved: nothing is deserialized and the VM is not invoked.
C5_UnresolvedMeansWaiting ==
    /\ \A r \in Live : ~ScriptOf(r).some => ~runners[r].executed
    /\ IsPass => \A r \in Live :
          (~ScriptOf(r).some <=> event.outcome[r] = "unresolved")

\* A runner was found unresolved in two ticks in a row.
C5_Witness ==
    /\ IsPass
    /\ \E r \in Live :
        /\ ~ScriptOf(r).some
        /\ event.prior[r] = "unresolved" /\ event.outcome[r] = "unresolved"
        /\ ~runners[r].executed

\* C6: independent failure isolation.  When a visit of one runner fails (the
\* VM raises or the bytecode does not deserialize), every other runner sharing
\* its handle is still visited in that pass and ends exactly as a visit of it
\* alone would: its flag and its outcome are those of run_one on the state it
\* had when the pass started.
C6_FailureIsolation ==
    IsPass => \A r, q \in Live :
        (r # q /\ runners[r].handle = runners[q].handle
             /\ event.outcome[r] \in {"execution_failed", "load_chunk_failed"})
        => /\ event.outcome[q] # "unvisited"
           /\ \E e \in Env :
                LET alone == run_one([runners[q] EXCEPT !.executed = event.before[q]],
                                     assets, e)
                IN  alone.runner = runners[q] /\ alone.outcome = event.outcome[q]

\* Two runners share one asset; in the same pass the VM raised for one and the
\* other succeeded.
C6_Witness ==
    /\ IsPass
    /\ \E r, q \in Live :
        /\ r # q /\ runners[r].handle = runners[q].handle
        /\ event.outcome[r] = "execution_failed" /\ ~runners[r].executed
        /\ event.outcome[q] = "executed" /\ runners[q].executed /\ ~event.before[q]

(***************************************************************************)
(* Properties of the loader (specification LoaderSpec)                     *)
(***************************************************************************)
IsLoad == event.type = "load"

\* The error variant each stage of the pipeline reports under.
ErrorKind == <<"Io", "Utf8", "Lexer", "Parser", "Compiler", "Bytecode">>

\* The position in Pipeline of the first stage that fails when `file` is
\* loaded as source, 0 when every stage succeeds.
FirstFailure(file) ==
    LET bytes == read_to_end(file)
        text == from_utf8(bytes.val)
        tokens == tokenize(text.val)
        program == parse_program(tokens.val)
        chunk == compile_program(program.val)
        bytecode == serialize_chunk(chunk.val)
    IN  CASE ~bytes.ok -> 1
          [] bytes.ok /\ ~text.ok -> 2
          [] bytes.ok /\ text.ok /\ ~tokens.ok -> 3
          [] bytes.ok /\ text.ok /\ tokens.ok /\ ~program.ok -> 4
          [] bytes.ok /\ text.ok /\ tokens.ok /\ program.ok /\ ~chunk.ok -> 5
          [] bytes.ok /\ text.ok /\ tokens.ok /\ program.ok /\ chunk.ok /\ ~bytecode.ok -> 6
          [] OTHER -> 0

\* C7: pass-through.  Every file that is read successfully loads, with the
\* extension fzb, into an asset whose bytecode is the file's bytes, byte for
\* byte; the load enters no stage after the read (no compile, no validation),
\* so the asset may hold bytes that do not deserialize.
C7_PassThrough ==
    (IsLoad /\ event.handle.ext = "fzb" /\ event.file.readable) =>
        /\ event.kind = "Ok"
        /\ assets[event.handle] = FusabiScript_new(event.handle.stem, event.file.bytes)
        /\ event.stages = <<"read">>

\* The bytes DE AD were loaded as .fzb and published unchanged, although they
\* do not deserialize.
C7_Witness ==
    /\ IsLoad /\ event.handle = PreFzb /\ event.file = FileOf(<<"xDE", "xAD">>)
    /\ assets[PreFzb].some /\ assets[PreFzb].bytecode = <<"xDE", "xAD">>
    /\ ~to_chunk(assets[PreFzb]).ok

\* C8: pipeline order and first-failure abort.  A source load enters the
\* stages read, utf8, lex, parse, compile, serialize in that order; it stops at
\* the first stage that fails, reports that stage's own error variant and
\* enters no later stage; when no stage fails it enters all six and succeeds.
C8_PipelineOrder ==
    (IsLoad /\ event.handle.ext # "fzb") =>
        LET n == FirstFailure(event.file)
        IN  IF n = 0
            THEN event.kind = "Ok" /\ event.stages = Pipeline
            ELSE event.kind = ErrorKind[n] /\ event.stages = SubSeq(Pipeline, 1, n)

\* A source whose parse fails and whose compile would fail too ended with the
\* parser's error, the compiler never entered.
C8_Witness ==
    /\ IsLoad /\ event.handle = HelloFsx /\ event.file = FileOf(<<"u", "(">>)
    /\ event.kind = "Parser"
    /\ event.stages = <<"read", "utf8", "lex", "parse">>

\* C9: no partial asset on a load error.  When any stage of a load fails the
\* load ends with one of the typed errors and the asset store holds nothing
\* for the path; an asset is stored only when every stage succeeded.
C9_NoPartialAsset ==
    IsLoad =>
        LET h == event.handle
            n == IF h.ext = "fzb" THEN (IF event.file.readable THEN 0 ELSE 1)
                 ELSE FirstFailure(event.file)
        IN  /\ n # 0 => /\ event.kind \in {ErrorKind[i] : i \in DOMAIN ErrorKind}
                        /\ assets[h] = NoAsset
            /\ n = 0 => event.kind = "Ok" /\ assets[h].some
            /\ \A p \in Paths \ {h} : assets[p] = NoAsset

\* An unterminated source was loaded as .fsx: a parser error, and no asset.
C9_Witness ==
    /\ IsLoad /\ event.handle = HelloFsx /\ event.file = FileOf(<<"k", "(">>)
    /\ event.kind = "Parser"
    /\ \A p \in Paths : assets[p] = NoAsset

\* C10: every published asset holds bytecode on which deserialization
\* succeeds, whichever extension it was loaded with.
C10_PublishedBytecodeValid ==
    \A p \in Paths : assets[p].some => to_chunk(assets[p]).ok

\* C11: header gate for persisted bytecode.  Whenever a pass attempts to
\* deserialize the asset under a runner's handle, the asset's bytes begin with
\* the format's magic: a file with another header never gets that far.
C11_HeaderGate ==
    IsPass =>
        \A r \in Live :
            Has(event.steps[r], "deserialize") =>
                /\ ScriptOf(r).bytecode # <<>>
                /\ Head(ScriptOf(r).bytecode) = Magic

\* C15: end-to-end source round trip.  When a source file loads, the asset's
\* bytecode is the serialization of the unit the source compiles to,
\* deserializing the asset gives that unit back, and a runner on the asset
\* ends as executing the compiled unit directly does: the same value when it
\* returns one, a failure when it raises.
C15_SourceRoundTrip ==
    (IsLoad /\ event.handle.ext # "fzb" /\ event.kind = "Ok") =>
        LET source == from_utf8(read_to_end(event.file).val).val
            unit == compile_source(source).val
            asset == assets[event.handle]
        IN  /\ asset.bytecode = serialize_chunk(unit).val
            /\ to_chunk(asset).ok /\ to_chunk(asset).val = unit
            /\ \A e \in Env :
                LET direct == execute(unit, e)
                    visit == run_one(RunScript(event.handle), assets, e)
                IN  /\ direct.ok => /\ visit.outcome = "executed"
                                    /\ visit.value = SomeValue(direct.val)
                    /\ ~direct.ok => visit.outcome = "execution_failed"

\* A source of two constants was loaded; the runner's value is 2.
C15_Witness ==
    /\ IsLoad /\ event.handle = HelloFsx /\ event.file = FileOf(<<"k", "k">>)
    /\ event.kind = "Ok"
    /\ run_one(RunScript(HelloFsx), assets, "calm").value = SomeValue(2)

\* C20: an extension other than fzb means source.  A readable file at a path
\* whose extension is not exactly fzb goes through the source pipeline and ends
\* as that pipeline ends (the asset, or the error of the first failing stage);
\* only fzb is passed through; no load fails for its extension.
C20_TreatAsSource ==
    (IsLoad /\ event.file.readable) =>
        LET n == FirstFailure(event.file)
        IN  /\ event.handle.ext = "fzb" <=> event.stages = <<"read">>
            /\ event.handle.ext # "fzb" =>
                /\ Len(event.stages) >= 2 /\ event.stages[2] = "utf8"
                /\ event.kind = IF n = 0 THEN "Ok" ELSE ErrorKind[n]
                /\ n = 0 => event.stages = Pipeline
            /\ event.kind \in {"Ok"} \cup {ErrorKind[i] : i \in DOMAIN ErrorKind}

\* A file at a path with no extension was compiled as source.
C20_Witness ==
    /\ IsLoad /\ event.handle = BareScript /\ event.file = FileOf(<<"k">>)
    /\ event.kind = "Ok" /\ event.stages = Pipeline
    /\ assets[BareScript].some

\* The value kept on a RunScript component, if the component has a place for one.
RecordedValue(runner) ==
    IF "value" \in DOMAIN runner THEN SomeValue(runner.value) ELSE NoValue

\* C12 as stated: after a successful execution the value the VM returned is
\* recorded on the runner's state.
C12_ValueRecordedOnRunner ==
    IsPass =>
        \A r \in Runners :
            event.outcome[r] = "executed" => RecordedValue(runners[r]) = event.value[r]

\* C12, amended: the value the VM returned is reported by the pass that
\* executed the runner (it is the value of executing the asset's unit) and by
\* no other visit; what the pass records on the runner is the executed flag
\* alone, the rest of the component staying as spawned.
C12_ValueReportedFlagRecorded ==
    IsPass =>
        \A r \in Runners :
            /\ event.outcome[r] = "executed" =>
                /\ \E e \in Env :
                    LET result == execute(to_chunk(ScriptOf(r)).val, e)
                    IN  result.ok /\ event.value[r] = SomeValue(result.val)
                /\ runners[r] = [RunScript(runners[r].handle) EXCEPT !.executed = TRUE]
                /\ RecordedValue(runners[r]) = NoValue
            /\ event.outcome[r] # "executed" => event.value[r] = NoValue

\* A runner executed a unit of one constant: the pass reported 1 and the
\* runner holds its handle and the flag.
C12_Witness ==
    /\ IsPass /\ event.outcome[1] = "executed"
    /\ event.value[1] = SomeValue(1)
    /\ runners[1] = [live |-> TRUE, handle |-> runners[1].handle, executed |-> TRUE]

\* C14: a fresh execution context per invocation.  In every pass the visits
\* that invoked the VM are exactly those that constructed one; each such
\* machine was in its initial state when execute was called on it, no machine
\* served two visits, and the value of a successful visit is that of the
\* asset's unit alone, whatever ran before it in this pass or in earlier ones.
C14_FreshVm ==
    IsPass =>
        \A r \in Runners :
            /\ event.vm[r].used <=> event.outcome[r] \in VmInvoked
            /\ event.vm[r].used =>
                /\ event.vm[r].start = Vm_new
                /\ \A q \in Runners \ {r} : event.vm[q].used => event.vm[q].id # event.vm[r].id
            /\ event.outcome[r] = "executed" =>
                event.value[r] = SomeValue(Pushed(to_chunk(ScriptOf(r)).val))

\* Two runners were executed in one pass, the first of them after a failed
\* attempt in the tick before: each got its own machine, and both the same
\* value.
C14_Witness ==
    /\ IsPass /\ event.prior[1] = "execution_failed"
    /\ event.outcome[1] = "executed" /\ event.outcome[2] = "executed"
    /\ event.vm[1].used /\ event.vm[2].used /\ event.vm[1].id # event.vm[2].id
    /\ event.value[1].some /\ event.value[1] = event.value[2]

\* C17: one attempt per runner per tick, in strict sequence.  A pass visits
\* every live runner once and no other; the steps of a visit are an initial
\* part of resolve, deserialize, construct VM, execute, record, in that order,
\* complete exactly when the runner was executed; so the VM is invoked at most
\* once per runner per pass.
C17_OneAttemptInOrder ==
    IsPass =>
        \A r \in Runners :
            /\ event.visits[r] = IF r \in Live THEN 1 ELSE 0
            /\ \E n \in 0..Len(StepsDone) : event.steps[r] = SubSeq(StepsDone, 1, n)
            /\ event.steps[r] = StepsDone <=> event.outcome[r] = "executed"
            /\ Cardinality({i \in DOMAIN event.steps[r] : event.steps[r][i] = "execute"}) <= 1

\* One pass took a runner through all five steps and stopped another after
\* execute, each visited once.
C17_Witness ==
    /\ IsPass /\ event.visits[1] = 1 /\ event.visits[2] = 1
    /\ event.steps[1] = <<"resolve", "deserialize", "vm_new", "execute", "record">>
    /\ event.steps[2] = <<"resolve", "deserialize", "vm_new", "execute">>

\* C18: the driver never mutates a published asset.  A pass, whatever each
\* visit ends in, leaves every entry of the asset store as it was: the same
\* name and the same bytecode, or still nothing.
C18_PassKeepsAssets ==
    [][event'.type = "run_scripts" => assets' = assets]_vars

\* A pass ended one visit in a RuntimeError and another in a deserialization
\* failure, and both assets are in the store.
C18_Witness ==
    /\ IsPass
    /\ event.outcome[1] = "execution_failed" /\ event.outcome[2] = "load_chunk_failed"
    /\ ScriptOf(1).some /\ ScriptOf(2).some
    /\ ScriptOf(1).bytecode # <<>> /\ ScriptOf(2).bytecode # <<>>

\* The state of the specified machine a runner is in between operations.
\* Running and Failed last no longer than the visit they occur in.
MachineState(r) ==
    IF ~runners[r].live THEN "Absent"
    ELSE IF runners[r].executed THEN "Succeeded" ELSE "Pending"

\* C16: every runner follows the specified state machine.  No runner exists
\* at the start; a runner comes into being Pending, by a spawn; the only other
\* change of state is Pending to Succeeded, made by a pass whose visit went
\* through execute and reported success; a visit that failed or found no
\* asset leaves the runner Pending; Succeeded is never left.
C16_RunnerStateMachine ==
    /\ \A r \in Runners : MachineState(r) = "Absent"
    /\ [][\A r \in Runners :
            /\ \/ MachineState(r)' = MachineState(r)
               \/ /\ MachineState(r) = "Absent" /\ MachineState(r)' = "Pending"
                  /\ event'.type = "spawn"
               \/ /\ MachineState(r) = "Pending" /\ MachineState(r)' = "Succeeded"
                  /\ event'.type = "run_scripts"
                  /\ event'.outcome[r] = "executed"
                  /\ Has(event'.steps[r], "execute")
            /\ (event'.type = "run_scripts" /\ MachineState(r) = "Pending"
                    /\ event'.outcome[r] # "executed")
                => MachineState(r)' = "Pending"
            /\ MachineState(r) = "Succeeded" => MachineState(r)' = "Succeeded"]_vars

\* A runner went Pending, Failed, Pending, Succeeded: its visit failed in one
\* tick and succeeded in the next.
C16_Witness ==
    /\ IsPass /\ MachineState(1) = "Succeeded"
    /\ event.prior[1] = "execution_failed" /\ ~event.before[1]
    /\ event.outcome[1] = "executed"

\* An asset whose bytecode deserializes to a unit that executes successfully
\* whatever the host does.
Good(script) ==
    /\ script.some /\ to_chunk(script).ok
    /\ \A e \in Env : execute(to_chunk(script).val, e).ok

\* C19: the handle is resolved anew on every attempt.  What a pass does with a
\* pending runner is decided by the asset the store holds under the runner's
\* handle at that pass; when a load puts a good asset under a path, every
\* runner of that path whose visit failed in the tick before is executed by
\* the very next pass; a runner that has succeeded is skipped in every pass,
\* whatever has been loaded under its handle since.
C19_ResolvedAnew ==
    /\ [](IsPass => \A r \in Live :
            /\ ~event.before[r] =>
                /\ event.outcome[r] = "unresolved" <=> ~ScriptOf(r).some
                /\ event.outcome[r] = "load_chunk_failed"
                       <=> (ScriptOf(r).some /\ ~to_chunk(ScriptOf(r)).ok)
                /\ event.outcome[r] \in VmInvoked <=> Runnable(r)
                /\ event.outcome[r] = "executed" =>
                       event.value[r] = SomeValue(Pushed(to_chunk(ScriptOf(r)).val))
            /\ event.before[r] => event.outcome[r] = "skipped" /\ runners[r].executed)
    /\ [][(event.type = "load" /\ event.kind = "Ok" /\ event'.type = "run_scripts") =>
            \A r \in Live :
                /\ (r \in event.failed /\ Good(load(event.handle, event.file).asset)) =>
                       event'.outcome[r] = "executed" /\ runners'[r].executed
                /\ runners[r].executed =>
                       event'.outcome[r] = "skipped" /\ runners'[r] = runners[r]]_vars

\* The visit of a runner failed; the asset under its handle was then replaced
\* by a good one, and the next pass executed the runner.
C19_Witness ==
    /\ IsPass /\ 1 \in event.failed
    /\ Good(ScriptOf(1))
    /\ event.outcome[1] = "executed" /\ runners[1].executed

\* Runner r exists and the asset under its handle is good.
HasGoodAsset(r) == runners[r].live /\ Good(ScriptOf(r))

\* C13: shared asset, independent success.  A pass executes every pending
\* runner whose asset is good, each on a machine of its own, however many
\* runners share the asset and whichever of them were executed before; and
\* with passes scheduled fairly, a runner whose asset is good is eventually
\* executed, unless the asset is replaced by one that is not good.
C13_SharedAssetAllSucceed ==
    /\ [](IsPass => \A r \in Live :
            (~event.before[r] /\ Good(ScriptOf(r))) =>
                /\ event.outcome[r] = "executed" /\ runners[r].executed
                /\ event.vm[r].used
                /\ \A q \in Live \ {r} : event.vm[q].used => event.vm[q].id # event.vm[r].id)
    /\ \A r \in Runners :
            HasGoodAsset(r) ~> (runners[r].executed \/ ~HasGoodAsset(r))

\* Two runners share one good asset; one was executed in an earlier tick, the
\* other in this one.
C13_Witness ==
    /\ IsPass /\ runners[1].live /\ runners[2].live
    /\ runners[1].handle = runners[2].handle /\ Good(ScriptOf(1))
    /\ event.before[1] /\ ~event.before[2]
    /\ runners[1].executed /\ runners[2].executed
    /\ event.outcome[2] = "executed"

====
